---- MODULE Spec2Model ----
(***************************************************************************)
(* Model of app/main.py: a Flask application with two routes, "/" and      *)
(* "/healthz", started by the __main__ block on the port read from the     *)
(* environment variable PORT (default "8080") on host 0.0.0.0.             *)
(*                                                                         *)
(* Strings that the program parses (the value of PORT) are sequences of    *)
(* one-character strings, so that int() is computed character by           *)
(* character.  An optional value is the empty sequence (None) or a         *)
(* one-element sequence.                                                   *)
(***************************************************************************)
EXTENDS Integers, Sequences, FiniteSets, TLC

\* ------------------------------------------------------------------ bounds
NumClients == 2
MaxRequests == 3

Clients == 1..NumClients

\* --------------------------------------------------------- program constants
\* variant: the framework's own default port, 5000
DefaultPortText_Flask == <<"5", "0", "0", "0">>

DefaultPortText == <<"8", "0", "8", "0">>
Host == "0.0.0.0"
IndexRule == "/"
HealthzRule == "/healthz"
GreetingText == "Hello from Flask on EKS"
HealthText == "ok"
HealthzStatus == 200

\* ------------------------------------------------ framework / OS constants
JsonifyStatus == 200
NotFoundStatus == 404
MethodNotAllowedStatus == 405
MaxPort == 65535
DefaultMethods == {"GET", "HEAD", "OPTIONS"}
EphemeralPorts == {32768, 49152}

\* ------------------------------------------------------ enumerated inputs
PortTexts ==
  { <<"9", "0", "9", "0">>,
    <<" ", "+", "9", "_", "0", " ">>,
    <<"0">>,
    <<"-", "1">>,
    <<"7", "0", "0", "0", "0">>,
    << >>,
    <<"a", "b", "c">>,
    <<"9", "0", "a">>,
    <<"8", "0", ".", "0">>,
    <<"9", "_", "_", "0">>,
    <<"-">> }

Environs == { << >> } \cup { [k \in {"PORT"} |-> t] : t \in PortTexts }
Requests ==
  { [method |-> "GET", path |-> "/"],
    [method |-> "GET", path |-> "/healthz"],
    [method |-> "GET", path |-> "/nope"],
    [method |-> "GET", path |-> "/healthz/"],
    [method |-> "POST", path |-> "/"] }

VARIABLES environ, pc, error, port, listen, url_map, conn, log, nreq

vars == <<environ, pc, error, port, listen, url_map, conn, log, nreq>>

\* ------------------------------------------------------------ os.getenv
\* variant: the variable is looked up under a name that is never set
getenv_WrongName(key, default) ==
  IF "port" \in DOMAIN environ THEN environ["port"] ELSE default

\* variant: os.getenv(key) or default, an empty value counts as unset
getenv_EmptyIsUnset(key, default) ==
  IF key \in DOMAIN environ /\ environ[key] # << >> THEN environ[key] ELSE default

getenv(key, default) ==
  IF key \in DOMAIN environ THEN environ[key] ELSE default

\* ------------------------------------------------------------------ int()
DigitChars == {"0", "1", "2", "3", "4", "5", "6", "7", "8", "9"}

DigitVal(c) ==
  CASE c = "0" -> 0 [] c = "1" -> 1 [] c = "2" -> 2 [] c = "3" -> 3
    [] c = "4" -> 4 [] c = "5" -> 5 [] c = "6" -> 6 [] c = "7" -> 7
    [] c = "8" -> 8 [] c = "9" -> 9

RECURSIVE LStrip(_)
LStrip(s) ==
  IF s # << >> /\ Head(s) = " " THEN LStrip(Tail(s)) ELSE s

RECURSIVE RStrip(_)
RStrip(s) ==
  IF s # << >> /\ s[Len(s)] = " " THEN RStrip(SubSeq(s, 1, Len(s) - 1)) ELSE s

Strip(s) == RStrip(LStrip(s))

\* digits, with single underscores allowed between two digits
ValidDigits(s) ==
  /\ s # << >>
  /\ s[1] \in DigitChars
  /\ s[Len(s)] \in DigitChars
  /\ \A i \in 1..Len(s) : s[i] \in DigitChars \cup {"_"}
  /\ \A i \in 1..(Len(s) - 1) : ~(s[i] = "_" /\ s[i + 1] = "_")

RECURSIVE DigitsValue(_, _)
DigitsValue(s, acc) ==
  IF s = << >> THEN acc
  ELSE IF Head(s) = "_" THEN DigitsValue(Tail(s), acc)
  ELSE DigitsValue(Tail(s), 10 * acc + DigitVal(Head(s)))

\* int(text): ok = FALSE stands for ValueError
PyInt(text) ==
  LET t == Strip(text)
      signed == t # << >> /\ Head(t) \in {"+", "-"}
      body == IF signed THEN Tail(t) ELSE t
      sign == IF signed /\ Head(t) = "-" THEN -1 ELSE 1
  IN IF ValidDigits(body)
       THEN [ok |-> TRUE, val |-> sign * DigitsValue(body, 0)]
       ELSE [ok |-> FALSE, val |-> 0]

\* ------------------------------------------------- json: dumps and loads
\* a dict is a function from keys to string values; the body of a response
\* is the sequence of tokens of its JSON text
RECURSIVE DumpItems(_, _)
DumpItems(d, keys) ==
  IF keys = {} THEN << >>
  ELSE LET k == CHOOSE x \in keys : TRUE
           rest == keys \ {k}
       IN <<"key", k, ":", "str", d[k]>>
            \o (IF rest = {} THEN << >> ELSE <<",">>)
            \o DumpItems(d, rest)

dumps(d) == <<"{">> \o DumpItems(d, DOMAIN d) \o <<"}">>

\* the positions of the keys of a well-formed object text
KeyPositions(toks) ==
  { i \in 1..Len(toks) : toks[i] = "key" /\ i + 4 <= Len(toks)
                          /\ toks[i + 2] = ":" /\ toks[i + 3] = "str" }

IsJsonObject(toks) ==
  /\ Len(toks) >= 2
  /\ toks[1] = "{"
  /\ toks[Len(toks)] = "}"
  /\ LET n == Cardinality(KeyPositions(toks))
     IN Len(toks) = 2 + 5 * n + (IF n = 0 THEN 0 ELSE n - 1)

loads(toks) ==
  LET ks == { toks[i + 1] : i \in KeyPositions(toks) }
  IN [k \in ks |-> toks[(CHOOSE i \in KeyPositions(toks) : toks[i + 1] = k) + 4]]

\* --------------------------------------------------------------- responses
NoBody == << >>
NoResponse == [status |-> 0, mimetype |-> "", body |-> NoBody]

jsonify(d) ==
  [status |-> JsonifyStatus, mimetype |-> "application/json", body |-> dumps(d)]

\* a view's return value is a response or a pair <<response, status>>
make_response(rv) ==
  IF DOMAIN rv = {1, 2} THEN [rv[1] EXCEPT !.status = rv[2]] ELSE rv

HttpError(code) ==
  [status |-> code, mimetype |-> "text/html", body |-> NoBody]

\* ------------------------------------------------------------------- views
\* variant: the greeting under another key
index_WrongKey == jsonify([msg |-> GreetingText])

\* variant: the greeting depends on how many requests were received
index_Counter ==
  jsonify([message |-> IF nreq > 1 THEN "Hello again" ELSE GreetingText])

index == jsonify([message |-> GreetingText])

\* variant: the health answer carries status 204
healthz_NoContent == <<jsonify([status |-> HealthText]), 204>>

healthz == <<jsonify([status |-> HealthText]), HealthzStatus>>

view_functions(endpoint) ==
  IF endpoint = "index" THEN index ELSE healthz

\* ------------------------------------------------------------------ routes
route(rule, endpoint) ==
  [rule |-> rule, endpoint |-> endpoint, methods |-> DefaultMethods]

Routes == { route(IndexRule, "index"), route(HealthzRule, "healthz") }

\* variant: a path no rule matches falls back to the rule "/"
match_CatchAll(map, method, path) ==
  LET exact == { r \in map : r.rule = path }
      byPath == IF exact = {} THEN { r \in map : r.rule = IndexRule } ELSE exact
      byMethod == { r \in byPath : method \in r.methods }
  IN IF byPath = {} THEN [endpoint |-> "", error |-> NotFoundStatus]
     ELSE IF byMethod = {} THEN [endpoint |-> "", error |-> MethodNotAllowedStatus]
     ELSE [endpoint |-> (CHOOSE r \in byMethod : TRUE).endpoint, error |-> 0]

\* url matching: exact rule, then allowed method
match(map, method, path) ==
  LET byPath == { r \in map : r.rule = path }
      byMethod == { r \in byPath : method \in r.methods }
  IN IF byPath = {} THEN [endpoint |-> "", error |-> NotFoundStatus]
     ELSE IF byMethod = {} THEN [endpoint |-> "", error |-> MethodNotAllowedStatus]
     ELSE [endpoint |-> (CHOOSE r \in byMethod : TRUE).endpoint, error |-> 0]

\* -------------------------------------------------------------- connections
NoRequest == [method |-> "", path |-> ""]

Idle ==
  [pc |-> "idle", req |-> NoRequest, endpoint |-> "", view |-> "",
   resp |-> NoResponse, lport |-> 0]

\* ---------------------------------------------------------------------------
Init ==
  /\ environ \in Environs
  /\ pc = "line18"
  /\ error = ""
  /\ port = << >>
  /\ listen = << >>
  /\ url_map = Routes
  /\ conn = [c \in Clients |-> Idle]
  /\ log = {}
  /\ nreq = 0

\* line 18: port = int(os.getenv("PORT", "8080"))
ReadPort ==
  /\ pc = "line18"
  /\ LET r == PyInt(getenv("PORT", DefaultPortText))
     IN IF r.ok
          THEN /\ port' = <<r.val>>
               /\ pc' = "line19"
               /\ error' = error
          ELSE /\ port' = port
               /\ pc' = "crashed"
               /\ error' = "ValueError"
  /\ UNCHANGED <<environ, listen, url_map, conn, log, nreq>>

\* line 19: app.run(host="0.0.0.0", port=port); the socket is bound here.
\* bind() raises OverflowError for a port outside 0..65535 and OSError when
\* the system refuses the address (in use, not permitted); port 0 asks the
\* system for a free port
Run ==
  /\ pc = "line19"
  /\ LET p == port[1]
     IN \/ /\ (p < 0 \/ p > MaxPort)
           /\ pc' = "crashed"
           /\ error' = "OverflowError"
           /\ listen' = listen
        \/ /\ p \in 0..MaxPort
           /\ pc' = "crashed"
           /\ error' = "OSError"
           /\ listen' = listen
        \/ /\ p \in 1..MaxPort
           /\ pc' = "serving"
           /\ error' = error
           /\ listen' = <<[host |-> Host, port |-> p]>>
        \/ /\ p = 0
           /\ \E e \in EphemeralPorts :
                listen' = <<[host |-> Host, port |-> e]>>
           /\ pc' = "serving"
           /\ error' = error
  /\ UNCHANGED <<environ, port, url_map, conn, log, nreq>>

\* a client connects to the listening socket and sends a request
Send(c, method, path) ==
  /\ pc = "serving"
  /\ conn[c].pc \in {"idle", "done"}
  /\ nreq < MaxRequests
  /\ conn' = [conn EXCEPT ![c] =
                [Idle EXCEPT !.pc = "sent",
                             !.req = [method |-> method, path |-> path],
                             !.lport = listen[1].port]]
  /\ nreq' = nreq + 1
  /\ UNCHANGED <<environ, pc, error, port, listen, url_map, log>>

\* variant: a request no rule matches brings the server down
Dispatch_ErrorStops(c) ==
  /\ pc = "serving"
  /\ conn[c].pc = "sent"
  /\ LET m == match(url_map, conn[c].req.method, conn[c].req.path)
     IN /\ conn' = [conn EXCEPT ![c] =
                      IF m.error = 0
                        THEN [@ EXCEPT !.pc = "routed", !.endpoint = m.endpoint]
                        ELSE [@ EXCEPT !.pc = "responded",
                                       !.resp = HttpError(m.error)]]
        /\ pc' = IF m.error = 0 THEN pc ELSE "crashed"
        /\ error' = IF m.error = 0 THEN error ELSE "HTTPException"
  /\ UNCHANGED <<environ, port, listen, url_map, log, nreq>>

\* the request is matched against the url map (lines 7 and 12)
Dispatch(c) ==
  /\ pc = "serving"
  /\ conn[c].pc = "sent"
  /\ LET m == match(url_map, conn[c].req.method, conn[c].req.path)
     IN conn' = [conn EXCEPT ![c] =
                   IF m.error = 0
                     THEN [@ EXCEPT !.pc = "routed", !.endpoint = m.endpoint]
                     ELSE [@ EXCEPT !.pc = "responded",
                                    !.resp = HttpError(m.error)]]
  /\ UNCHANGED <<environ, pc, error, port, listen, url_map, log, nreq>>

\* variant: the views write into one response object shared by all requests
Handle_SharedResponse(c) ==
  /\ pc = "serving"
  /\ conn[c].pc = "routed"
  /\ LET r == make_response(view_functions(conn[c].endpoint))
     IN conn' = [d \in Clients |->
                  IF d = c
                    THEN [conn[d] EXCEPT !.pc = "responded",
                                         !.view = conn[c].endpoint,
                                         !.resp = r]
                    ELSE IF conn[d].pc = "responded" /\ conn[d].view # ""
                      THEN [conn[d] EXCEPT !.resp = r]
                      ELSE conn[d]]
  /\ UNCHANGED <<environ, pc, error, port, listen, url_map, log, nreq>>

\* variant: a view registers a further route when it is first called
Handle_RegistersRoute(c) ==
  /\ pc = "serving"
  /\ conn[c].pc = "routed"
  /\ conn' = [conn EXCEPT ![c] =
                [@ EXCEPT !.pc = "responded",
                          !.view = conn[c].endpoint,
                          !.resp = make_response(view_functions(conn[c].endpoint))]]
  /\ url_map' = url_map \cup {route("/metrics", "metrics")}
  /\ UNCHANGED <<environ, pc, error, port, listen, log, nreq>>

\* the view function of the matched endpoint is called (lines 8-9, 13-14)
Handle(c) ==
  /\ pc = "serving"
  /\ conn[c].pc = "routed"
  /\ conn' = [conn EXCEPT ![c] =
                [@ EXCEPT !.pc = "responded",
                          !.view = conn[c].endpoint,
                          !.resp = make_response(view_functions(conn[c].endpoint))]]
  /\ UNCHANGED <<environ, pc, error, port, listen, url_map, log, nreq>>

\* the response is written back to the client
Deliver(c) ==
  /\ pc = "serving"
  /\ conn[c].pc = "responded"
  /\ conn' = [conn EXCEPT ![c].pc = "done"]
  /\ log' = log \cup { [method |-> conn[c].req.method,
                        path |-> conn[c].req.path,
                        status |-> conn[c].resp.status,
                        body |-> conn[c].resp.body] }
  /\ UNCHANGED <<environ, pc, error, port, listen, url_map, nreq>>

\* the host environment kills the process: the listening socket and every
\* open connection are closed with it
Terminate ==
  /\ pc = "serving"
  /\ pc' = "terminated"
  /\ listen' = << >>
  /\ conn' = [c \in Clients |-> Idle]
  /\ UNCHANGED <<environ, error, port, url_map, log, nreq>>

Next ==
  \/ ReadPort
  \/ Run
  \/ \E c \in Clients, r \in Requests : Send(c, r.method, r.path)
  \/ \E c \in Clients : Dispatch(c)
  \/ \E c \in Clients : Handle(c)
  \/ \E c \in Clients : Deliver(c)
  \/ Terminate

Spec == Init /\ [][Next]_vars

\* the server handles every connection in a thread of its own: the thread
\* matches the request, calls the view and writes the answer
Serve(c) == Dispatch(c) \/ Handle(c) \/ Deliver(c)

\* a started thread keeps being scheduled until it has written its answer
Fairness == \A c \in Clients : WF_vars(Serve(c))

\* the starts that reach the serving state on a fixed port: PORT unset and
\* PORT=9090; what is served does not depend on the port
LiveEnvirons == { << >>, [k \in {"PORT"} |-> <<"9", "0", "9", "0">>] }

InitLive == Init /\ environ \in LiveEnvirons

LiveSpec == InitLive /\ [][Next]_vars /\ Fairness

\* ---------------------------------------------------------------------------
\* properties
\* ---------------------------------------------------------------------------
Answered(c) == conn[c].pc \in {"responded", "done"}

IsGet(c, path) == conn[c].req.method = "GET" /\ conn[c].req.path = path

PortSet == "PORT" \in DOMAIN environ

\* C1: every GET / that was answered got status 200 and a JSON body that is
\* exactly the object {"message": "Hello from Flask on EKS"}, whatever was
\* handled before it.
C1_IndexAnswer ==
  \A e \in log :
    (e.method = "GET" /\ e.path = "/") =>
      /\ e.status = 200
      /\ IsJsonObject(e.body)
      /\ loads(e.body) = [message |-> "Hello from Flask on EKS"]
      /\ loads(e.body)["message"] # ""

C1_Witness ==
  /\ nreq = MaxRequests
  /\ Cardinality(log) >= 2
  /\ \E c \in Clients : conn[c].pc = "done" /\ IsGet(c, "/")
  /\ \E e \in log : e.method = "GET" /\ e.path = "/"

\* C2: every GET /healthz is answered with status exactly 200 and a body
\* that is exactly the object {"status": "ok"}, in every reachable state.
C2_HealthzAnswer ==
  \A c \in Clients :
    (Answered(c) /\ IsGet(c, "/healthz")) =>
      /\ conn[c].resp.status = 200
      /\ conn[c].resp.mimetype = "application/json"
      /\ IsJsonObject(conn[c].resp.body)
      /\ loads(conn[c].resp.body) = [status |-> "ok"]

C2_Witness ==
  /\ nreq >= 2
  /\ \E c \in Clients : conn[c].pc = "done" /\ IsGet(c, "/healthz")

\* C3: started with PORT unset, the server listens on port 8080 of interface
\* 0.0.0.0 and on no other port or interface.
C3_DefaultPort ==
  ~PortSet =>
    /\ pc = "serving" => listen = <<[host |-> "0.0.0.0", port |-> 8080]>>
    /\ pc # "serving" => listen = << >>
    /\ \A c \in Clients : conn[c].pc # "idle" => conn[c].lport = 8080

C3_Witness ==
  /\ ~PortSet
  /\ pc = "serving"
  /\ listen # << >>
  /\ \E c \in Clients : conn[c].pc = "done"

\* C4 as stated: started with PORT set to the text of an integer n, the
\* server is bound to exactly port n.
C4_Original ==
  (PortSet /\ PyInt(environ["PORT"]).ok /\ listen # << >>) =>
    listen[1].port = PyInt(environ["PORT"]).val

\* C4 amended: started with PORT set to a text that int() reads as n, the
\* global port is n from line 19 on; for 1 <= n <= 65535 a listening server
\* is bound to exactly port n and every connection was accepted on port n;
\* for n = 0 it is bound to a port the system chose; for any other n it
\* never listens.
C4_ConfiguredPort ==
  (PortSet /\ PyInt(environ["PORT"]).ok) =>
    LET n == PyInt(environ["PORT"]).val
    IN /\ pc \in {"line19", "serving", "terminated"} => port = <<n>>
       /\ (n \in 1..65535 /\ listen # << >>) =>
            listen = <<[host |-> "0.0.0.0", port |-> n]>>
       /\ n \in 1..65535 =>
            \A c \in Clients : conn[c].pc # "idle" => conn[c].lport = n
       /\ (n = 0 /\ listen # << >>) => listen[1].port \notin {0, 8080}
       /\ n \notin 0..65535 => (listen = << >> /\ pc # "serving")

C4_Witness ==
  /\ PortSet
  /\ environ["PORT"] = <<"9", "0", "9", "0">>
  /\ pc = "serving"
  /\ listen = <<[host |-> "0.0.0.0", port |-> 9090]>>
  /\ \E c \in Clients : conn[c].pc = "done" /\ conn[c].lport = 9090

\* C5: with several clients in flight at once, every client's answer is the
\* one of its own request path: the greeting for GET /, the health payload
\* for GET /healthz.
C5_OwnAnswer ==
  \A c \in Clients :
    Answered(c) =>
      /\ IsGet(c, "/") =>
           (conn[c].view = "index"
              /\ conn[c].resp.body
                   = <<"{", "key", "message", ":", "str", "Hello from Flask on EKS", "}">>)
      /\ IsGet(c, "/healthz") =>
           (conn[c].view = "healthz"
              /\ conn[c].resp.body = <<"{", "key", "status", ":", "str", "ok", "}">>)

C5_Witness ==
  \E c, d \in Clients :
    /\ c # d
    /\ conn[c].pc = "responded" /\ IsGet(c, "/")
    /\ conn[d].pc = "responded" /\ IsGet(d, "/healthz")

\* C6: the answer is a function of method and path alone: any two answers
\* to the same request have the same status and body, whatever came between.
C6_Idempotent ==
  /\ \A e, f \in log :
       (e.method = f.method /\ e.path = f.path) =>
         (e.status = f.status /\ e.body = f.body)
  /\ \A c \in Clients : \A e \in log :
       (Answered(c) /\ conn[c].req.method = e.method /\ conn[c].req.path = e.path) =>
         (conn[c].resp.status = e.status /\ conn[c].resp.body = e.body)

C6_Witness ==
  \E c, d \in Clients :
    /\ c # d
    /\ conn[c].pc = "done" /\ conn[d].pc = "done"
    /\ conn[c].req = conn[d].req
    /\ nreq >= 3
    /\ Cardinality(log) >= 2

\* C7: a GET for a path other than exactly / or /healthz gets a status
\* outside 200..299, and neither view function is called for it.
C7_UndefinedPath ==
  \A c \in Clients :
    (conn[c].pc # "idle" /\ conn[c].req.method = "GET"
       /\ conn[c].req.path \notin {"/", "/healthz"}) =>
      /\ conn[c].pc # "routed"
      /\ conn[c].endpoint = ""
      /\ conn[c].view = ""
      /\ Answered(c) => conn[c].resp.status \notin 200..299

C7_Witness ==
  /\ \E c \in Clients : conn[c].pc = "done" /\ IsGet(c, "/nope")
  /\ \E c \in Clients : conn[c].pc = "done" /\ IsGet(c, "/healthz/")

\* C8: once listening, only termination by the host ends serving: every
\* other step from a serving state leaves the server serving on the same
\* socket; and every request sent is eventually answered unless the host
\* terminates the process first.
C8_KeepsServing ==
  /\ [][(pc = "serving" /\ ~Terminate) => (pc' = "serving" /\ listen' = listen)]_vars
  /\ \A c \in Clients :
       (conn[c].pc = "sent") ~> (conn[c].pc = "done" \/ pc = "terminated")

C8_Witness ==
  /\ pc = "serving"
  /\ nreq = MaxRequests
  /\ \A c \in Clients : conn[c].pc = "done"
  /\ \E c \in Clients : conn[c].resp.status = 404
  /\ \E c \in Clients : conn[c].resp.status = 200

\* C9: a step of request handling changes one connection and nothing else:
\* the bound socket, the global port, the program position and the route
\* table (exactly / and /healthz) stay as they were, and so do the payloads
\* the two views build.
RequestStep ==
  \E c \in Clients :
    \/ \E r \in Requests : Send(c, r.method, r.path)
    \/ Dispatch(c)
    \/ Handle(c)
    \/ Deliver(c)

C9_RequestFrame ==
  [][RequestStep =>
       /\ listen' = listen
       /\ port' = port
       /\ pc' = pc
       /\ environ' = environ
       /\ url_map' = url_map
       /\ {r.rule : r \in url_map'} = {"/", "/healthz"}
       /\ Cardinality(url_map') = 2
       /\ Cardinality({c \in Clients : conn'[c] # conn[c]}) = 1
       /\ make_response(index)' = make_response(index)
       /\ make_response(healthz)' = make_response(healthz)]_vars

C9_Witness ==
  /\ pc = "serving"
  /\ \E c \in Clients : conn[c].pc = "done" /\ conn[c].resp.status = 200
  /\ \E c \in Clients : conn[c].pc = "done" /\ conn[c].resp.status = 405

\* C10: started with PORT set to a text int() rejects (the empty text
\* included), the program stops at line 18 with ValueError: nothing is
\* bound, 8080 is not used instead, and no request is served.
C10_BadPortFails ==
  (PortSet /\ ~PyInt(environ["PORT"]).ok) =>
    /\ pc \in {"line18", "crashed"}
    /\ pc = "crashed" => error = "ValueError"
    /\ port = << >>
    /\ listen = << >>
    /\ nreq = 0
    /\ log = {}

C10_Witness ==
  /\ PortSet
  /\ environ["PORT"] = << >>
  /\ pc = "crashed"
  /\ error = "ValueError"

====
